---------------------------- MODULE Spec2Model ----------------------------
(***************************************************************************)
(* MarginSimulator (src/src/MarginSimulator.ts):                           *)
(* calculateNumberOfSellableItems, the iterative search for the number of  *)
(* items a client can buy with a budget, for both transport payers, and    *)
(* calculateMarginInUSD, the margin reported for that number of items.     *)
(*                                                                         *)
(* Numbers.  The source computes with JavaScript numbers, and rounding     *)
(* decides some of its comparisons.  The model computes with the same      *)
(* numbers: IEEE 754 doubles with a 53-bit significand, every operation    *)
(* rounded to nearest, ties to even, with both zeros, the infinities and   *)
(* NaN.  A significand is held in four limbs of 14 bits.  Exponents are    *)
(* unbounded: the solver's numbers stay far from overflow and underflow.   *)
(***************************************************************************)
EXTENDS Integers, Sequences, FiniteSets

VARIABLES cfg, est, prev, pc, probes, marginInUSD

vars == <<cfg, est, prev, pc, probes, marginInUSD>>

---------------------------------------------------------------------------
(* Bounds of the model *)

\* budgets range over BudgetUnit * (-NegBudgetUnits .. MaxBudgetUnits) dollars
NegBudgetUnits == 2
MaxBudgetUnits == 8
\* the grow step is not taken beyond this estimate (runaway growth only)
MaxEstimate == 12
\* iterations unrolled by Iterate before it gives up
MaxIterations == 64

---------------------------------------------------------------------------
(* JavaScript number arithmetic: IEEE 754 doubles, round to nearest even *)

\* bits of a limb of a significand
LimbBits == 14
\* the base of the limbs
W == 2^LimbBits
\* bits of the significand of a double
MantissaBits == 53

\* a JavaScript number: a double s * M * 2^e whose 53-bit significand M is
\* the tuple m of four limbs, least significant first (zero: M = 0, e = 0),
\* or an infinity, or NaN; and the value undefined
Double == [k : {"num", "inf", "nan", "undefined"}, s : {-1, 1}, e : Int, m : Seq(Int)]

NaN == [k |-> "nan", s |-> 1, e |-> 0, m |-> <<>>]

Undefined == [k |-> "undefined", s |-> 1, e |-> 0, m |-> <<>>]

Infinity(s) == [k |-> "inf", s |-> s, e |-> 0, m |-> <<>>]

Zero(s) == [k |-> "num", s |-> s, e |-> 0, m |-> <<0, 0, 0, 0>>]

IsNaN(a) == a.k = "nan"

IsFinite(a) == a.k = "num"

IsZero[a \in Double] == a.k = "num" /\ a.m = <<0, 0, 0, 0>>

\* limb i of the natural number n, 0 beyond its length
Limb[n \in Seq(Int), i \in Int] == IF i >= 1 /\ i <= Len(n) THEN n[i] ELSE 0

\* the LimbBits bits of n from bit p up (bits below bit 0 are 0)
Window[n \in Seq(Int), p \in Int] ==
  (Limb[n, (p \div LimbBits) + 1] \div 2^(p % LimbBits))
    + (Limb[n, (p \div LimbBits) + 2] % 2^(p % LimbBits)) * 2^(LimbBits - (p % LimbBits))

\* the number of bits of x
BitLength[x \in Nat] == IF x = 0 THEN 0 ELSE 1 + BitLength[x \div 2]

\* the number of bits of the natural number whose limbs are n[1..i]
BitLengthOfLimbs[n \in Seq(Int), i \in Nat] ==
  IF i = 0 THEN 0
  ELSE IF n[i] # 0 THEN LimbBits * (i - 1) + BitLength[n[i]]
  ELSE BitLengthOfLimbs[n, i - 1]

\* some bit of n below bit r is 1
LowBits[n \in Seq(Int), r \in Int] ==
  \E j \in 1 .. Len(n) :
     /\ LimbBits * (j - 1) < r
     /\ IF LimbBits * j <= r THEN n[j] # 0
        ELSE n[j] % 2^(r - LimbBits * (j - 1)) # 0

\* carries (or borrows) propagated through the columns from column i on
Carry[cols \in Seq(Int), i \in Nat, c \in Int] ==
  IF i > Len(cols) THEN (IF c = 0 THEN <<>> ELSE <<c>>)
  ELSE <<(cols[i] + c) % W>> \o Carry[cols, i + 1, (cols[i] + c) \div W]

\* a number left negative by Carry
Negative(n) == Len(n) > 0 /\ n[Len(n)] < 0

\* the double s * q * 2^e for a significand q of at most 53 bits, plus one
\* unit in the last place if up
Pack[s \in {-1, 1}, q \in Seq(Int), e \in Int, up \in BOOLEAN] ==
  IF ~up THEN [k |-> "num", s |-> s, e |-> e, m |-> q]
  ELSE IF q[1] + 1 < W THEN [k |-> "num", s |-> s, e |-> e, m |-> <<q[1] + 1, q[2], q[3], q[4]>>]
  ELSE IF q[2] + 1 < W THEN [k |-> "num", s |-> s, e |-> e, m |-> <<0, q[2] + 1, q[3], q[4]>>]
  ELSE IF q[3] + 1 < W THEN [k |-> "num", s |-> s, e |-> e, m |-> <<0, 0, q[3] + 1, q[4]>>]
  ELSE IF q[4] + 1 < 2^(MantissaBits - 3 * LimbBits)
       THEN [k |-> "num", s |-> s, e |-> e, m |-> <<0, 0, 0, q[4] + 1>>]
  ELSE [k |-> "num", s |-> s, e |-> e + 1, m |-> <<0, 0, 0, 2^(MantissaBits - 3 * LimbBits - 1)>>]

\* s * n * 2^e with the lowest r bits of n rounded off, to nearest, ties to
\* even, for n of r + MantissaBits bits (no bits: n = 0); sticky: the exact
\* value is a little above n
RoundOff[s \in {-1, 1}, n \in Seq(Int), e \in Int, sticky \in BOOLEAN, r \in Int] ==
  IF r + MantissaBits = 0 THEN Zero(s)
  ELSE
  Pack[s,
       <<Window[n, r], Window[n, r + LimbBits], Window[n, r + 2 * LimbBits],
         Window[n, r + 3 * LimbBits]>>,
       e + r,
       /\ r >= 1
       /\ Window[n, r - 1] % 2 = 1
       /\ (sticky \/ LowBits[n, r - 1] \/ Window[n, r] % 2 = 1)]

\* the double nearest to s * n * 2^e
Round[s \in {-1, 1}, n \in Seq(Int), e \in Int, sticky \in BOOLEAN] ==
  RoundOff[s, n, e, sticky, BitLengthOfLimbs[n, Len(n)] - MantissaBits]

\* the double of a whole number
Int2Num(i) ==
  Round[IF i < 0 THEN -1 ELSE 1,
        IF i < 0 THEN <<(-i) % W, ((-i) \div W) % W, (-i) \div (W * W)>>
        ELSE <<i % W, (i \div W) % W, i \div (W * W)>>,
        0, FALSE]

\* -a
Neg[a \in Double] == [a EXCEPT !.s = -a.s]

\* the product of two significands
Product[x \in Seq(Int), y \in Seq(Int)] ==
  Carry[<<x[1] * y[1],
          x[1] * y[2] + x[2] * y[1],
          x[1] * y[3] + x[2] * y[2] + x[3] * y[1],
          x[1] * y[4] + x[2] * y[3] + x[3] * y[2] + x[4] * y[1],
          x[2] * y[4] + x[3] * y[3] + x[4] * y[2],
          x[3] * y[4] + x[4] * y[3],
          x[4] * y[4]>>, 1, 0]

\* a * b
Mul[a \in Double, b \in Double] ==
  IF IsNaN(a) \/ IsNaN(b) THEN NaN
  ELSE IF ~IsFinite(a) \/ ~IsFinite(b)
       THEN IF IsZero[a] \/ IsZero[b] THEN NaN ELSE Infinity(a.s * b.s)
  ELSE IF IsZero[a] \/ IsZero[b] THEN Zero(a.s * b.s)
  ELSE Round[a.s * b.s, Product[a.m, b.m], a.e + b.e, FALSE]

\* limbs i .. len of n with its lowest p bits cut off (of n * 2^(-p) when
\* p is negative)
Shift[n \in Seq(Int), p \in Int, i \in Nat, len \in Nat] ==
  IF i > len THEN <<>>
  ELSE <<Window[n, LimbBits * (i - 1) + p]>> \o Shift[n, p, i + 1, len]

\* the columns x[i] + sign * y[i]
Columns[x \in Seq(Int), y \in Seq(Int), sign \in {-1, 1}, i \in Nat] ==
  IF i > Len(x) /\ i > Len(y) THEN <<>>
  ELSE <<Limb[x, i] + sign * Limb[y, i]>> \o Columns[x, y, sign, i + 1]

\* the double nearest to s * n * 2^e for a number n that Carry may have
\* left negative, minus being -n
RoundSigned[s \in {-1, 1}, n \in Seq(Int), minus \in Seq(Int), e \in Int, sticky \in BOOLEAN] ==
  IF ~Negative(n) /\ BitLengthOfLimbs[n, Len(n)] = 0 THEN Zero(1)
  ELSE Round[IF Negative(n) THEN -s ELSE s, IF Negative(n) THEN minus ELSE n, e, sticky]

\* the double nearest to (sx * x + sy * y) * 2^e
RoundSum[sx \in {-1, 1}, x \in Seq(Int), sy \in {-1, 1}, y \in Seq(Int), e \in Int, sticky \in BOOLEAN] ==
  RoundSigned[sx, Carry[Columns[x, y, sx * sy, 1], 1, 0],
              Carry[Columns[y, x, -1, 1], 1, 0], e, sticky]

\* b is too small next to a to do more than decide the rounding of a + b
FarBelow(a, b) == a.e - b.e > 4 * LimbBits + 2

\* a + b for finite a, b, neither of them zero, a.e >= b.e
AddAligned[a \in Double, b \in Double] ==
  RoundSum[a.s,
           Shift[a.m, IF FarBelow(a, b) THEN -2 ELSE b.e - a.e, 1,
                 IF FarBelow(a, b) THEN 5 ELSE 9],
           b.s,
           IF ~FarBelow(a, b) THEN b.m ELSE IF a.s = b.s THEN <<0>> ELSE <<1>>,
           IF FarBelow(a, b) THEN a.e - 2 ELSE b.e,
           FarBelow(a, b)]

\* a + b
Add[a \in Double, b \in Double] ==
  IF IsNaN(a) \/ IsNaN(b) THEN NaN
  ELSE IF ~IsFinite(a) THEN (IF ~IsFinite(b) /\ a.s # b.s THEN NaN ELSE a)
  ELSE IF ~IsFinite(b) THEN b
  ELSE IF IsZero[a] THEN (IF IsZero[b] /\ a.s # b.s THEN Zero(1) ELSE b)
  ELSE IF IsZero[b] THEN a
  ELSE AddAligned[IF a.e >= b.e THEN a ELSE b, IF a.e >= b.e THEN b ELSE a]

\* a - b
Sub[a \in Double, b \in Double] == Add[a, Neg[b]]

\* r - q * d
SubMul[r \in Seq(Int), d \in Seq(Int), q \in Int] ==
  Carry[<<r[1] - q * d[1], r[2] - q * d[2], r[3] - q * d[3], r[4] - q * d[4], r[5]>>, 1, 0]

\* the largest q with q * d <= r, for r < d * W and d[4] >= W / 2
QuotientDigit[r \in Seq(Int), d \in Seq(Int), guess \in Nat] ==
  IF Negative(SubMul[r, d, guess]) THEN QuotientDigit[r, d, guess - 1] ELSE guess

FirstGuess[r \in Seq(Int), d \in Seq(Int)] ==
  IF (r[5] * W + r[4]) \div d[4] < W THEN (r[5] * W + r[4]) \div d[4] ELSE W - 1

\* r * W, for r of four limbs
TimesW[r \in Seq(Int)] == <<0, r[1], r[2], r[3], r[4]>>

\* long division of r * W^k by d, for r < d * W: the quotient's limbs (least
\* significant first, on top of the limbs q) and the remainder
LongDivision[r \in Seq(Int), d \in Seq(Int), k \in Nat, q \in Seq(Int)] ==
  LET digit == QuotientDigit[r, d, FirstGuess[r, d]]
  IN  IF k = 0 THEN [q |-> <<digit>> \o q, r |-> SubMul[r, d, digit]]
      ELSE LongDivision[TimesW[SubMul[r, d, digit]], d, k - 1, <<digit>> \o q]

\* what LongDivision yields: the quotient's limbs and the remainder's
QuotientAndRemainder == [q : Seq(Int), r : Seq(Int)]

\* the double nearest to s * (quotient, and a remainder) * 2^e
RoundQuotient[s \in {-1, 1}, res \in QuotientAndRemainder, e \in Int] ==
  Round[s, res.q, e, BitLengthOfLimbs[res.r, Len(res.r)] # 0]

\* a / b
Div[a \in Double, b \in Double] ==
  IF IsNaN(a) \/ IsNaN(b) THEN NaN
  ELSE IF ~IsFinite(a) THEN (IF ~IsFinite(b) THEN NaN ELSE Infinity(a.s * b.s))
  ELSE IF ~IsFinite(b) THEN Zero(a.s * b.s)
  ELSE IF IsZero[b] THEN (IF IsZero[a] THEN NaN ELSE Infinity(a.s * b.s))
  ELSE IF IsZero[a] THEN Zero(a.s * b.s)
  ELSE RoundQuotient[a.s * b.s,
                     LongDivision[Shift[a.m, -3, 1, 5], Shift[b.m, -3, 1, 4], 4, <<>>],
                     a.e - b.e - 4 * LimbBits]

\* |a| > |b| for finite a, b, neither of them zero
Larger[a \in Double, b \in Double] ==
  \/ a.e > b.e
  \/ /\ a.e = b.e
     /\ \E i \in 1 .. 4 : a.m[i] > b.m[i] /\ \A j \in (i + 1) .. 4 : a.m[j] = b.m[j]

\* a > b
Gt[a \in Double, b \in Double] ==
  IF IsNaN(a) \/ IsNaN(b) THEN FALSE
  ELSE IF ~IsFinite(a) THEN a.s = 1 /\ a # b
  ELSE IF ~IsFinite(b) THEN b.s = -1
  ELSE IF IsZero[a] THEN ~IsZero[b] /\ b.s = -1
  ELSE IF IsZero[b] THEN a.s = 1
  ELSE IF a.s # b.s THEN a.s = 1
  ELSE IF a.s = 1 THEN Larger[a, b]
  ELSE Larger[b, a]

\* a < b
Lt[a \in Double, b \in Double] == Gt[b, a]

\* a <= b
Le[a \in Double, b \in Double] == ~IsNaN(a) /\ ~IsNaN(b) /\ ~Gt[a, b]

\* a !== b
StrictNe[a \in Double, b \in Double] ==
  IsNaN(a) \/ IsNaN(b) \/ (a # b /\ ~(IsZero[a] /\ IsZero[b]))

\* Math.floor(a)
Floor[a \in Double] ==
  IF ~IsFinite(a) \/ IsZero[a] \/ a.e >= 0 THEN a
  ELSE Round[a.s,
             IF a.s = -1 /\ LowBits[a.m, 0 - a.e]
             THEN Carry[Columns[Shift[a.m, 0 - a.e, 1, 4], <<1>>, 1, 1], 1, 0]
             ELSE Shift[a.m, 0 - a.e, 1, 4],
             0, FALSE]

\* Math.ceil(a)
Ceil[a \in Double] == Neg[Floor[Neg[a]]]

---------------------------------------------------------------------------
(* Configuration *)

\* the number that the decimal literal n/d denotes
Decimal(n, d) == Div[Int2Num(n), Int2Num(d)]

\* 1 dollar = 0.88 euros
DOLLAR_EUR_MARGIN == Decimal(88, 100)

\* a field that holds a number or a function of the number of items:
\* kind "number" is the number lo; kind "function" is
\* (numberOfItems) => numberOfItems < tier ? lo : hi; kind "undefined"
\* is an optional field left out
NumberOption(values) ==
  [kind : {"number"}, tier : {Zero(1)}, lo : values, hi : {Zero(1)}]

FunctionOption(tiers, values) ==
  {o \in [kind : {"function"}, tier : {Int2Num(t) : t \in tiers}, lo : values,
          hi : values] :
     o.lo # o.hi}

NoOption == [kind |-> "undefined", tier |-> Zero(1), lo |-> Zero(1), hi |-> Zero(1)]

PriceValues == {Decimal(44, 10), Decimal(88, 10)}

MarginValues == {Int2Num(0), Decimal(1, 2)}

\* a constant price, a price with one tier, or a deep discount from the
\* second item on
PriceOptions ==
  NumberOption(PriceValues) \cup FunctionOption({2, 3}, PriceValues)
    \cup {[kind |-> "function", tier |-> Int2Num(2), lo |-> Decimal(132, 10),
           hi |-> Decimal(44, 10)]}

MarginOptions ==
  {NoOption} \cup NumberOption(MarginValues \cup {Int2Num(1), Decimal(3, 2)})
             \cup FunctionOption({3}, MarginValues)

BuyOptions ==
  {NoOption} \cup NumberOption({Int2Num(0), Int2Num(10)})

\* (numberOfItems) => fixed + perBatch * Math.ceil(numberOfItems / batch)
TransportOptions ==
  { [fixed |-> Int2Num(0), perBatch |-> Int2Num(0), batch |-> Int2Num(1)],
    [fixed |-> Int2Num(5), perBatch |-> Int2Num(0), batch |-> Int2Num(1)],
    [fixed |-> Int2Num(0), perBatch |-> Int2Num(16), batch |-> Int2Num(3)] }

\* dollars between two budgets of the model
BudgetUnit == 5

Budgets == {BudgetUnit * k : k \in (0 - NegBudgetUnits) .. MaxBudgetUnits}

\* the MarginSimulators of the model
Configs ==
  [budget : Budgets, pricePerItem : PriceOptions, desiredMargin : MarginOptions,
   buysAtPricePerItem : BuyOptions, costFn : TransportOptions,
   pays : {"client", "purchaser"}, DOLLAR_EUR_MARGIN : {DOLLAR_EUR_MARGIN}]

\* the type of a number-or-function field
Option ==
  [kind : {"number", "function", "undefined"}, tier : Double, lo : Double,
   hi : Double]

\* the type of a MarginSimulator: the fields of its config, and its own
\* field DOLLAR_EUR_MARGIN
MarginSimulatorConfig ==
  [budget : Int, pricePerItem : Option, desiredMargin : Option,
   buysAtPricePerItem : Option,
   costFn : [fixed : Double, perBatch : Double, batch : Double],
   pays : {"client", "purchaser"}, DOLLAR_EUR_MARGIN : Double]

\* the value of a number-or-function field at q items
Evaluate(o, q) ==
  IF o.kind = "function"
  THEN IF Lt[q, o.tier] THEN o.lo ELSE o.hi
  ELSE o.lo

---------------------------------------------------------------------------
(* Pricing *)

getPurchasePrice[c \in MarginSimulatorConfig, q \in Double] == Evaluate(c.pricePerItem, q)

\* !a for a number or undefined: true of 0, -0, NaN and undefined
Not(a) == a = Undefined \/ IsNaN(a) \/ IsZero[a]

getClientBuyPrice[c \in MarginSimulatorConfig, q \in Double] ==
  IF c.buysAtPricePerItem.kind = "undefined" THEN Undefined
  ELSE IF c.buysAtPricePerItem.kind = "number"
          /\ Not(c.buysAtPricePerItem.lo) THEN Undefined
  ELSE Evaluate(c.buysAtPricePerItem, q)

getDesiredMargin[c \in MarginSimulatorConfig, q \in Double] ==
  IF c.desiredMargin.kind # "undefined" THEN Evaluate(c.desiredMargin, q)
  ELSE IF getClientBuyPrice[c, q] # Undefined
  THEN Sub[Int2Num(1),
           Div[getPurchasePrice[c, q],
               Mul[getClientBuyPrice[c, q], c.DOLLAR_EUR_MARGIN]]]
  ELSE Decimal(2, 10)

calculateMarginPercentage[c \in MarginSimulatorConfig, q \in Double] == getDesiredMargin[c, q]

getPricePerItem[c \in MarginSimulatorConfig, q \in Double] == getPurchasePrice[c, q]

getSellPricePerItem[c \in MarginSimulatorConfig, q \in Double] ==
  IF getClientBuyPrice[c, q] # Undefined
  THEN Mul[getClientBuyPrice[c, q], c.DOLLAR_EUR_MARGIN]
  ELSE Div[getPurchasePrice[c, q], Sub[Int2Num(1), getDesiredMargin[c, q]]]

\* marginInEuros / DOLLAR_EUR_MARGIN, for the cost and the sell price of
\* all the items
MarginOfTrade[c \in MarginSimulatorConfig, costInEuros \in Double, sellPriceInEuros \in Double] ==
  Div[Sub[sellPriceInEuros, costInEuros], c.DOLLAR_EUR_MARGIN]

\* sellPriceInEuros - costInEuros in dollars, for the cost of all the items
\* and the margin
MarginOnCost[c \in MarginSimulatorConfig, costInEuros \in Double, margin \in Double] ==
  MarginOfTrade[c, costInEuros, Div[costInEuros, Sub[Int2Num(1), margin]]]

\* the margin in dollars that calculateMarginInUSD computes for itemCount
MarginInUSD(c, itemCount) ==
  MarginOnCost[c, Mul[getPricePerItem[c, itemCount], itemCount],
               getDesiredMargin[c, itemCount]]

costFn[c \in MarginSimulatorConfig, q \in Double] ==
  Add[c.costFn.fixed, Mul[c.costFn.perBatch, Ceil[Div[q, c.costFn.batch]]]]

clientBudgetInEuros[c \in MarginSimulatorConfig] == Mul[Int2Num(c.budget), c.DOLLAR_EUR_MARGIN]

---------------------------------------------------------------------------
(* One iteration of the refinement loop *)

\* the starting estimate
InitialEstimate(c) ==
  IF c.pays = "client"
  THEN Floor[Div[clientBudgetInEuros[c], getSellPricePerItem[c, Int2Num(1)]]]
  ELSE Int2Num(1)

\* the loop condition
LoopContinues(c, e, p) ==
  /\ StrictNe[e, p]
  /\ c.pays = "client" => Gt[e, Int2Num(0)]

\* TotalCost with the transport cost left out when the client pays
TotalCostWithoutTransport(c, e) == Mul[getSellPricePerItem[c, e], e]

\* the price of the items, plus the transport cost of e items when the
\* client pays it
PlusTransport[c \in MarginSimulatorConfig, price \in Double, e \in Double] ==
  IF c.pays = "client" THEN Add[price, costFn[c, e]] ELSE price

\* totalCost of the iteration at estimate e
TotalCost(c, e) == PlusTransport[c, Mul[getSellPricePerItem[c, e], e], e]

\* the sell price of the next item, plus what it adds to the transport cost
\* when the client pays it
PlusTransportOfNext[c \in MarginSimulatorConfig, sellPriceForNextItem \in Double, e \in Double, next \in Double] ==
  IF c.pays = "client"
  THEN Add[sellPriceForNextItem, Sub[costFn[c, next], costFn[c, e]]]
  ELSE sellPriceForNextItem

\* what the loop adds to totalCost for the item after e, number `next`
AdditionalCost[c \in MarginSimulatorConfig, e \in Double, next \in Double] ==
  PlusTransportOfNext[c, getSellPricePerItem[c, next], e, next]

\* what the loop adds to totalCost for one more item
CostPerAdditionalItem(c, e) == AdditionalCost[c, e, Add[e, Int2Num(1)]]

TooManyItems(c, e) == Gt[TotalCost(c, e), clientBudgetInEuros[c]]

\* ReducedEstimate rounding up instead of down
ReducedEstimateRoundedUp(c, e) ==
  Ceil[Mul[e, Div[clientBudgetInEuros[c], TotalCost(c, e)]]]

ReducedEstimate(c, e) ==
  Floor[Mul[e, Div[clientBudgetInEuros[c], TotalCost(c, e)]]]

CanAddItem(c, e) ==
  Le[Add[TotalCost(c, e), CostPerAdditionalItem(c, e)], clientBudgetInEuros[c]]

---------------------------------------------------------------------------
(* The solver as a function of its configuration *)

\* the loop from estimate e with previousEstimate p: the value returned, or
\* Undefined when the loop is still running after `fuel` iterations or the
\* estimate outgrows MaxEstimate
RECURSIVE Iterate(_, _, _, _)
Iterate(c, e, p, fuel) ==
  IF ~LoopContinues(c, e, p) THEN e
  ELSE IF fuel = 0 THEN Undefined
  ELSE IF TooManyItems(c, e) THEN Iterate(c, ReducedEstimate(c, e), e, fuel - 1)
  ELSE IF ~CanAddItem(c, e) THEN e
  ELSE IF Le[Int2Num(MaxEstimate), e] THEN Undefined
  ELSE Iterate(c, Add[e, Int2Num(1)], e, fuel - 1)

calculateNumberOfSellableItems(c) ==
  Iterate(c, InitialEstimate(c), Int2Num(0), MaxIterations)

---------------------------------------------------------------------------
(* The solver as a state machine *)

Init ==
  /\ cfg \in Configs
  /\ est = Int2Num(0)
  /\ prev = Int2Num(0)
  /\ pc = "start"
  /\ probes = {}
  /\ marginInUSD = Undefined

\* client pays: the estimate that ignores transport
SeedClient ==
  /\ pc = "start"
  /\ cfg.pays = "client"
  /\ est' = InitialEstimate(cfg)
  /\ prev' = Int2Num(0)
  /\ probes' = {Int2Num(1)}
  /\ pc' = "loop"
  /\ UNCHANGED <<cfg, marginInUSD>>

\* purchaser pays: start from one item
SeedPurchaser ==
  /\ pc = "start"
  /\ cfg.pays # "client"
  /\ est' = InitialEstimate(cfg)
  /\ prev' = Int2Num(0)
  /\ probes' = {}
  /\ pc' = "loop"
  /\ UNCHANGED <<cfg, marginInUSD>>

\* the loop condition fails: return estimatedItems
Return ==
  /\ pc = "loop"
  /\ ~LoopContinues(cfg, est, prev)
  /\ pc' = "done"
  /\ UNCHANGED <<cfg, est, prev, probes, marginInUSD>>

\* too many items: reduce the estimate
Reduce ==
  /\ pc = "loop"
  /\ LoopContinues(cfg, est, prev)
  /\ TooManyItems(cfg, est)
  /\ prev' = est
  /\ est' = ReducedEstimate(cfg, est)
  /\ probes' = probes \cup {est}
  /\ UNCHANGED <<cfg, pc, marginInUSD>>

\* one more item fits: add it
AddItem ==
  /\ pc = "loop"
  /\ LoopContinues(cfg, est, prev)
  /\ ~TooManyItems(cfg, est)
  /\ CanAddItem(cfg, est)
  /\ Lt[est, Int2Num(MaxEstimate)]
  /\ prev' = est
  /\ est' = Add[est, Int2Num(1)]
  /\ probes' = probes \cup {est, Add[est, Int2Num(1)]}
  /\ UNCHANGED <<cfg, pc, marginInUSD>>

\* no more item fits: break and return estimatedItems
Break ==
  /\ pc = "loop"
  /\ LoopContinues(cfg, est, prev)
  /\ ~TooManyItems(cfg, est)
  /\ ~CanAddItem(cfg, est)
  /\ prev' = est
  /\ probes' = probes \cup {est, Add[est, Int2Num(1)]}
  /\ pc' = "done"
  /\ UNCHANGED <<cfg, est, marginInUSD>>

\* calculateMarginInUSD, once its call of calculateNumberOfSellableItems
\* has returned estimatedItems
calculateMarginInUSD ==
  /\ pc = "done"
  /\ marginInUSD' = MarginInUSD(cfg, est)
  /\ pc' = "reported"
  /\ UNCHANGED <<cfg, est, prev, probes>>

Next ==
  \/ SeedClient \/ SeedPurchaser \/ Return \/ Reduce \/ AddItem \/ Break
  \/ calculateMarginInUSD

Spec == Init /\ [][Next]_vars

\* the solver is one sequential call: it keeps executing until it returns
FairSpec == Spec /\ WF_vars(Next)

---------------------------------------------------------------------------
(* Vocabulary of the claims *)

Quantities == 0 .. (MaxEstimate + 1)

\* the solver has returned
Returned == pc \in {"done", "reported"}

\* an item count: a whole number >= 0
IsItemCount(e) == IsFinite(e) /\ Floor[e] = e /\ Le[Int2Num(0), e]

\* purchase price and margin as the solver requires them of its caller
ValidPricing(c) ==
  \A q \in Quantities :
     /\ Gt[getPurchasePrice[c, Int2Num(q)], Int2Num(0)]
     /\ Le[Int2Num(0), getDesiredMargin[c, Int2Num(q)]]
     /\ Lt[getDesiredMargin[c, Int2Num(q)], Int2Num(1)]

\* the solver's preconditions
MeetsPreconditions(c) == c.budget >= 0 /\ ValidPricing(c)

\* what n items cost the client: sell price times count, plus transport
\* when the client pays it
CostToClient(c, n) ==
  IF c.pays = "client"
  THEN Add[Mul[getSellPricePerItem[c, n], n], costFn[c, n]]
  ELSE Mul[getSellPricePerItem[c, n], n]

Affordable(c, n) == Le[CostToClient(c, n), clientBudgetInEuros[c]]

\* cost functions of the intended kind: the sell price is positive and
\* never rises with the quantity, the transport cost is non-negative and
\* never falls with the quantity
MonotoneCosts(c) ==
  \A q \in 1 .. (MaxEstimate + 1) :
     LET n == Int2Num(q)
         m == Int2Num(q + 1)
     IN  /\ IsFinite(getSellPricePerItem[c, n])
         /\ Gt[getSellPricePerItem[c, m], Int2Num(0)]
         /\ Le[getSellPricePerItem[c, m], getSellPricePerItem[c, n]]
         /\ Le[Int2Num(0), costFn[c, n]]
         /\ Le[costFn[c, n], costFn[c, m]]

---------------------------------------------------------------------------
(* C1: budget respect *)

\* C1 as stated: whenever the solver returns for inputs that meet the
\* preconditions, the cost to the client of the returned item count is at
\* most the converted budget.
C1_BudgetRespect ==
  (Returned /\ MeetsPreconditions(cfg)) => Affordable(cfg, est)

\* C1 (amended): whenever the solver returns for inputs that meet the
\* preconditions, the result is an item count, and if it is at least 1 its
\* cost to the client (sell price times count, plus transport when the
\* client pays) is at most the converted budget.  For a result of 0 the
\* cost is transportCost(0) alone, which the solver never compares with
\* the budget.
C1_BudgetRespectOfPositiveCount ==
  (Returned /\ MeetsPreconditions(cfg)) =>
     /\ IsItemCount(est)
     /\ Le[Int2Num(1), est] => Affordable(cfg, est)

\* a tiered price, transport paid by the client, and the solver returned a
\* positive count after reducing a larger estimate
C1_Witness ==
  /\ Returned
  /\ MeetsPreconditions(cfg)
  /\ cfg.pays = "client"
  /\ cfg.pricePerItem.kind = "function"
  /\ Le[Int2Num(2), est]
  /\ Gt[costFn[cfg, est], Int2Num(0)]
  /\ \E q \in probes : Gt[q, Add[est, Int2Num(1)]]

---------------------------------------------------------------------------
(* C2: local maximality *)

\* C2 as stated: whenever the solver returns for inputs that meet the
\* preconditions, one more item than the returned count costs the client
\* more than the converted budget.
C2_LocalMaximality ==
  (Returned /\ MeetsPreconditions(cfg)) =>
     Gt[CostToClient(cfg, Add[est, Int2Num(1)]), clientBudgetInEuros[cfg]]

---------------------------------------------------------------------------
(* C3: monotonicity in the budget *)

\* C3 as stated, for cost functions of the intended kind: whenever the
\* solver returns for inputs that meet the preconditions, with a sell price
\* that never rises and a transport cost that never falls with the
\* quantity, it returns at least as many items as it returns for any
\* smaller budget >= 0 with the same pricing, margin, transport and payer.
C3_MonotoneInBudget ==
  (Returned /\ MeetsPreconditions(cfg) /\ MonotoneCosts(cfg)) =>
     \A b \in Budgets :
        LET smaller == calculateNumberOfSellableItems([cfg EXCEPT !.budget = b])
        IN  (0 <= b /\ b <= cfg.budget /\ smaller # Undefined) => Le[smaller, est]

---------------------------------------------------------------------------
(* C4: client pays never yields more than purchaser pays *)

\* C4 as stated: whenever the solver returns under client-pays for inputs
\* that meet the preconditions, it returns at most the count it returns
\* under purchaser-pays for the same budget, pricing and margin.
C4_ClientAtMostPurchaser ==
  (Returned /\ MeetsPreconditions(cfg) /\ cfg.pays = "client") =>
     LET purchaser == calculateNumberOfSellableItems([cfg EXCEPT !.pays = "purchaser"])
     IN  purchaser # Undefined => Le[est, purchaser]

---------------------------------------------------------------------------
(* C5: closed form for constant pricing *)

\* unit price, margin and transport cost do not depend on the quantity, and
\* the sell price is the unit price marked up by the margin
ConstantPricing(c) ==
  /\ c.pricePerItem.kind = "number"
  /\ c.desiredMargin.kind # "function"
  /\ c.buysAtPricePerItem.kind # "function"
  /\ IsZero[c.costFn.perBatch]
  /\ c.desiredMargin.kind = "undefined" \/ getClientBuyPrice[c, Int2Num(1)] = Undefined

\* floor(convertedBudget / (unitPrice / (1 - margin)))
ClosedForm(c) ==
  Floor[Div[clientBudgetInEuros[c],
            Div[getPurchasePrice[c, Int2Num(1)],
                Sub[Int2Num(1), getDesiredMargin[c, Int2Num(1)]]]]]

\* C5: with a quantity-independent unit price, margin and transport cost,
\* the purchaser paying transport and a budget >= 0, the solver returns
\* exactly floor(convertedBudget / (unitPrice / (1 - margin))).
C5_ConstantClosedForm ==
  (Returned /\ MeetsPreconditions(cfg) /\ ConstantPricing(cfg)
            /\ cfg.pays = "purchaser") => est = ClosedForm(cfg)

---------------------------------------------------------------------------
(* C6: below the single-unit floor the result is 0 *)

\* the cost to the client of a single unit
SingleUnitFloor(c) == CostToClient(c, Int2Num(1))

\* C6 as stated: whenever the solver returns for inputs that meet the
\* preconditions and the converted budget is below the cost of a single
\* unit (sell price, plus transport when the client pays), it returns 0.
C6_BelowFloorIsZero ==
  (Returned /\ MeetsPreconditions(cfg)
            /\ Lt[clientBudgetInEuros[cfg], SingleUnitFloor(cfg)]) => est = Int2Num(0)

\* no quantity from 1 up costs the client less than a single unit
NoQuantityCheaperThanOne(c) ==
  \A q \in 1 .. (MaxEstimate + 1) :
     Le[SingleUnitFloor(c), CostToClient(c, Int2Num(q))]

\* C6 (amended): whenever the solver returns for inputs that meet the
\* preconditions, it returns 0 if the converted budget is below
\* sellPrice(1), under either payer; and it returns 0 if the client pays,
\* the converted budget is below sellPrice(1) + transportCost(1) and no
\* larger quantity costs less than a single unit.
C6_BelowFloorIsZeroUnlessCheaperInBulk ==
  (Returned /\ MeetsPreconditions(cfg)) =>
     /\ Lt[clientBudgetInEuros[cfg], getSellPricePerItem[cfg, Int2Num(1)]]
           => est = Int2Num(0)
     /\ (Lt[clientBudgetInEuros[cfg], SingleUnitFloor(cfg)]
           /\ NoQuantityCheaperThanOne(cfg)) => est = Int2Num(0)

\* the client pays, the budget covers the sell price of one unit but not
\* its transport, and the solver reduced a positive estimate down to 0
C6_Witness ==
  /\ Returned
  /\ MeetsPreconditions(cfg)
  /\ cfg.pays = "client"
  /\ Le[getSellPricePerItem[cfg, Int2Num(1)], clientBudgetInEuros[cfg]]
  /\ Lt[clientBudgetInEuros[cfg], SingleUnitFloor(cfg)]
  /\ NoQuantityCheaperThanOne(cfg)
  /\ est = Int2Num(0)
  /\ Gt[prev, Int2Num(0)]

---------------------------------------------------------------------------
(* C7: termination for monotone cost functions *)

\* C7: for a budget >= 0 and cost functions of the intended kind (sell
\* price positive and never rising, transport cost non-negative and never
\* falling with the quantity), the solver eventually returns.
C7_Termination ==
  (pc = "start" /\ MeetsPreconditions(cfg) /\ MonotoneCosts(cfg)) ~> Returned

---------------------------------------------------------------------------
(* C8: a loop that does not converge is stopped with an error *)

\* the solver has raised an error; no statement of the solver raises one,
\* so no action leads here
Failed == pc = "error"

\* C8: for a budget >= 0 and valid pricing whose costs are not of the
\* monotone kind (a sell price that rises with the quantity), the solver
\* eventually stops: it returns or it fails with a convergence error; it
\* does not loop forever.
C8_NonConvergenceSurfaced ==
  (pc = "start" /\ MeetsPreconditions(cfg) /\ ~MonotoneCosts(cfg))
     ~> (Returned \/ Failed)

---------------------------------------------------------------------------
(* C9: a margin >= 1 is an error *)

\* the sell price at q items is the purchase price divided by (1 - margin)
SellPriceFromMargin(c, q) == getClientBuyPrice[c, q] = Undefined

\* C9: the solver never returns an item count after dividing by a zero or
\* negative (1 - margin): whenever it returns for a budget >= 0, the margin
\* was below 1 at every quantity whose sell price it computed from the
\* margin.
C9_InvalidMarginRejected ==
  (Returned /\ cfg.budget >= 0) =>
     \A q \in probes :
        SellPriceFromMargin(cfg, q) => Lt[getDesiredMargin[cfg, q], Int2Num(1)]

---------------------------------------------------------------------------
(* C10: a negative budget is rejected *)

\* C10: for valid pricing, whenever the solver returns, the budget was not
\* negative and the value returned is an item count, a whole number >= 0.
C10_NegativeBudgetRejected ==
  (Returned /\ ValidPricing(cfg)) => (cfg.budget >= 0 /\ IsItemCount(est))

---------------------------------------------------------------------------
(* C11: the step relation of the refinement loop *)

\* an iteration of the loop starts in this state
IterationStarts == pc = "loop" /\ LoopContinues(cfg, est, prev)

\* sellPrice(e + 1), plus transportCost(e + 1) - transportCost(e) when the
\* client pays transport
MarginalCost(c, e) ==
  LET next == Add[e, Int2Num(1)]
  IN  IF c.pays = "client"
      THEN Add[getSellPricePerItem[c, next], Sub[costFn[c, next], costFn[c, e]]]
      ELSE getSellPricePerItem[c, next]

\* (b) too expensive: the new estimate is floor(e * convertedBudget /
\* totalCost), strictly smaller than e, and the loop goes on
ShrinkStep ==
  /\ est' = Floor[Mul[est, Div[clientBudgetInEuros[cfg], CostToClient(cfg, est)]]]
  /\ Lt[est', est]
  /\ pc' = "loop"

\* (c1) one more item fits: the new estimate is e + 1 and the loop goes on
GrowStep ==
  /\ est' = Add[est, Int2Num(1)]
  /\ pc' = "loop"

\* (c2) the loop ends and e is returned unchanged
FinalStep ==
  /\ est' = est
  /\ pc' = "done"

\* what the claim says of the iteration that starts in this state
StepAsClaimed ==
  /\ IF Gt[CostToClient(cfg, est), clientBudgetInEuros[cfg]]
     THEN ShrinkStep
     ELSE IF Le[Add[CostToClient(cfg, est), MarginalCost(cfg, est)],
                clientBudgetInEuros[cfg]]
          THEN GrowStep
          ELSE FinalStep
  /\ Le[est', Add[est, Int2Num(1)]]
  /\ cfg' = cfg

\* C11 as stated: every iteration of the loop, from estimate e with
\* totalCost evaluated at e, is a shrink to
\* floor(e * convertedBudget / totalCost) < e if totalCost >
\* convertedBudget; else a growth by exactly 1 if totalCost plus the
\* marginal cost of item e + 1 is <= convertedBudget; else the end of the
\* loop with e unchanged.  No iteration grows the estimate by more than 1.
C11_StepRelation ==
  [][IterationStarts => StepAsClaimed]_vars

---------------------------------------------------------------------------
(* C12: the sell price and the reported margin agree *)

\* |a|
Abs(a) == IF a.s = -1 THEN Neg[a] ELSE a

\* a and b are the same amount up to the rounding of the arithmetic: they
\* differ by at most a billionth of b
SameAmount(a, b) ==
  Le[Abs(Sub[a, b]), Mul[Abs(b), Decimal(1, 1000000000)]]

\* sellPrice(n) * (1 - margin(n)) = unitPrice(n), with the margin that
\* calculateMarginPercentage returns
MarginExplainsSellPrice(c, n) ==
  SameAmount(Mul[getSellPricePerItem[c, n],
                 Sub[Int2Num(1), calculateMarginPercentage[c, n]]],
             getPurchasePrice[c, n])

\* (sellPrice(n) - unitPrice(n)) * n / 0.88
MarginEarned(c, n) ==
  Div[Mul[Sub[getSellPricePerItem[c, n], getPurchasePrice[c, n]], n],
      DOLLAR_EUR_MARGIN]

\* C12: for inputs that meet the preconditions, whichever of desiredMargin
\* and buysAtPricePerItem are given, the sell price the solver uses times
\* (1 - margin) is the unit price at every quantity, and the margin
\* reported for the solved count n is (sellPrice(n) - unitPrice(n)) * n /
\* 0.88, both up to rounding.
C12_SellPriceMarginConsistency ==
  (pc = "reported" /\ MeetsPreconditions(cfg)) =>
     /\ \A q \in 1 .. (MaxEstimate + 1) : MarginExplainsSellPrice(cfg, Int2Num(q))
     /\ SameAmount(marginInUSD, MarginEarned(cfg, est))

=============================================================================
